---- MODULE Spec2Model ----
(***************************************************************************)
(* The AI-provider waterfall of excel-manager: the HTTP entrypoint POST    *)
(* (src/app/api/ai/route.ts and its variants in src/unnamed/part_000), the *)
(* schema extractors, and the two orchestrators, makeAIRequestWithFallback *)
(* (src/unnamed/part_016) and makeAIRequest (src/services/ai-service.ts).  *)
(*                                                                         *)
(* One behaviour is one call: a POST request (which runs the repository's  *)
(* adapters: groq.ts, part_020, xai.ts, cohere.ts), a direct call of an    *)
(* orchestrator with a hand-built schema and mock adapters, or a direct    *)
(* call of one adapter.  SpecFair adds what the event loop guarantees;     *)
(* SpecTwo runs two calls of the orchestrators concurrently.  An action is *)
(* one turn of the JavaScript event loop: the code that runs between two   *)
(* awaits.  JavaScript strings that are assembled by the code are          *)
(* sequences of tokens, so that concatenation and join are real.           *)
(*                                                                         *)
(* SpecSchema calls the schema extractors on their own, SpecSheet runs the *)
(* useSpreadsheet hook, SpecUpload the useFileUpload hook and SpecUnique   *)
(* calls getUniqueFilename (src/unnamed/part_015).                         *)
(***************************************************************************)
EXTENDS Integers, Sequences, FiniteSets, TLC

VARIABLES
    entry,       \* which function was called (see Entries)
    body,        \* the POST request's body (NoBody for a direct call)
    query,       \* the query handed to the orchestrator
    schema,      \* the schema handed to the orchestrator
    pc,          \* "start" | "awaiting" | "done"
    idx,         \* index in PROVIDERS of the handler being awaited (0: none)
    attemptLog,  \* part_016: attemptLog (the durations are not modelled)
    errors,      \* ai-service.ts: errors
    response,    \* the AIResponse the orchestrator returned
    term,        \* how the call ended
    httpStatus,  \* POST: the status of the response (0: none yet)
    httpBody,    \* POST: the JSON body of the response
    invoked,     \* history: the adapters invoked, in order
    handed,      \* history: the (query, schema) handed to each adapter
    outcomes,    \* history: how each attempt concluded
    late,        \* per provider: an abandoned (timed-out) handler call
    called,      \* history: the functions POST has called
    thrown,      \* history: the exception POST caught (NoStr: none)
    fetches,     \* history: per run of a repository adapter, its API key,
                 \* whether it called fetch, and what the API answered
    calls,       \* the orchestration calls that run concurrently (SpecTwo)
    sheet,       \* useSpreadsheet: data, loading, error, undoRedo (SpecSheet)
    upload,      \* useFileUpload: uploads, isUploading and the uploadFile
                 \* calls that are running (SpecUpload)
    unique       \* getUniqueFilename: its arguments and result (SpecUnique)

vars == <<entry, body, query, schema, pc, idx, attemptLog, errors, response,
          term, httpStatus, httpBody, invoked, handed, outcomes, late, called,
          thrown, fetches, calls, sheet, upload, unique>>

\* The state of the hooks and of the file utilities.
hooks == <<sheet, upload, unique>>

(***************************************************************************)
(* Bounds of the model.                                                    *)
(***************************************************************************)
MaxCols == 2     \* headers of a request: at most this many columns
MaxRows == 2     \* rows of a request body: at most this many
MaxCells == 2    \* cells of a request body, over all its rows

(***************************************************************************)
(* JavaScript values.                                                      *)
(***************************************************************************)
Range(s) == {s[i] : i \in 1..Len(s)}

Take(s, n) == SubSeq(s, 1, IF Len(s) < n THEN Len(s) ELSE n)

\* An optional array: undefined (or any falsy value), an array, or a truthy
\* value that is not an array (a number, a string, an object).
Undef == [t |-> "undef", a |-> <<>>]
Other == [t |-> "other", a |-> <<>>]
Arr(s) == [t |-> "arr", a |-> s]

Truthy(v) == v.t # "undef"

\* An optional string; s is a sequence of tokens.
NoStr == [t |-> "undef", s |-> <<>>]
Str(s) == [t |-> "str", s |-> s]

\* JavaScript's truthiness of an optional string: undefined and "" are falsy.
TruthyStr(v) == v.t = "str" /\ v.s # <<>>

\* A template literal's `${v}`: undefined prints as "undefined".
Interpolate(v) == IF v.t = "undef" THEN <<"undefined">> ELSE v.s

\* A spreadsheet cell: its JavaScript typeof and its verbatim value.
Cells ==
    { [ty |-> "number", raw |-> "42"],
      [ty |-> "number", raw |-> "7"],
      [ty |-> "string", raw |-> "hello"] }

\* The results of typeof.
TypeofTags ==
    {"number", "string", "boolean", "object", "undefined", "bigint",
     "symbol", "function"}

SeqsUpTo(S, n) == UNION {[1..k -> S] : k \in 0..n}

RECURSIVE TotalCells(_)
TotalCells(rs) ==
    IF rs = <<>> THEN 0 ELSE Len(Head(rs)) + TotalCells(Tail(rs))

AllHeaders == <<"A", "B", "C", "D">>

\* The request bodies of the model.
QueryInputs == {NoStr, Str(<<>>), Str(<<"sum column A">>)}

HeadersInputs ==
    {Undef, Other} \cup {Arr(SubSeq(AllHeaders, 1, n)) : n \in 0..MaxCols}

RowInputs == SeqsUpTo(Cells, MaxCells)

FirstRowInputs == {Undef, Other} \cup {Arr(r) : r \in RowInputs}

RowsInputs ==
    {Undef} \cup
    {Arr(rs) : rs \in {x \in SeqsUpTo(RowInputs, MaxRows) :
                          TotalCells(x) <= MaxCells}}

(***************************************************************************)
(* Schemas and the schema extractors.                                      *)
(***************************************************************************)
\* part_000: the rowCount and sampleRows the enhanced route adds to a schema.
NoExtra == [present |-> FALSE, rowCount |-> 0, sampleRows |-> <<>>]

NoSchema ==
    [headers |-> Undef, columnTypes |-> <<>>, sampleData |-> Undef,
     extra |-> NoExtra]

\* firstRow[index]: undefined past the end of the row.
TypeofAt(row, i) == IF i <= Len(row) THEN row[i].ty ELSE "undefined"

\* headers.forEach((header, index) => columnTypes[header] = ...): the last
\* column of a name decides.
LastIndexOf(headers, h) ==
    CHOOSE i \in 1..Len(headers) :
        /\ headers[i] = h
        /\ \A j \in (i + 1)..Len(headers) : headers[j] # h

extractSchema_RawSample(headers, firstRow) ==
    [headers |-> Arr(headers),
     columnTypes |->
        [h \in Range(headers) |->
            IF Truthy(firstRow)
            THEN TypeofAt(firstRow.a, LastIndexOf(headers, h))
            ELSE "string"],
     sampleData |->
        IF Truthy(firstRow)
        THEN Arr([i \in 1..Len(firstRow.a) |-> firstRow.a[i].raw])
        ELSE Undef,
     extra |-> NoExtra]

\* ai-service.ts extractSchema, for an array of headers and a first row that
\* is an array or absent.
extractSchema(headers, firstRow) ==
    [headers |-> Arr(headers),
     columnTypes |->
        [h \in Range(headers) |->
            IF Truthy(firstRow)
            THEN TypeofAt(firstRow.a, LastIndexOf(headers, h))
            ELSE "string"],
     sampleData |->
        IF Truthy(firstRow)
        THEN Arr([i \in 1..Len(firstRow.a) |-> firstRow.a[i].ty])
        ELSE Undef,
     extra |-> NoExtra]

\* What extractSchema throws: headers.forEach on a value that is no array,
\* firstRow.map on a truthy value that is no array.  NoStr: it returns.
extractSchemaError(headers, firstRow) ==
    IF headers.t # "arr"
    THEN Str(<<"headers.forEach is not a function">>)
    ELSE IF firstRow.t = "other"
         THEN Str(<<"firstRow.map is not a function">>)
         ELSE NoStr

\* Date.parse(value) and Number(value) on the strings of the model.  What
\* Date.parse makes of a string that is no ISO date is left to the engine
\* (V8 reads '42' as a year), so the numeric strings here are ones that no
\* engine reads as a date; Number('') and Number(' ') are 0.
DateStrings == {"2024-01-15"}
NumericStrings == {"Infinity", "", " "}
BlankStrings == {"", " "}

\* The objects of the model for which `value instanceof Date` holds.
DateObjects == {"new Date(0)"}

\* part_016 inferType, on a cell or on undefined (a missing cell).
inferType(row, i) ==
    IF i > Len(row) THEN "null"
    ELSE LET c == row[i] IN
         IF c.ty = "undefined" \/ (c.ty = "object" /\ c.raw = "null")
         THEN "null"
         ELSE IF c.ty = "number" THEN "number"
         ELSE IF c.ty = "boolean" THEN "boolean"
         ELSE IF c.ty = "object" /\ c.raw \in DateObjects THEN "date"
         ELSE IF c.ty = "string" /\ c.raw \in DateStrings THEN "date"
         ELSE IF c.ty = "string" /\ c.raw \in NumericStrings
                 /\ c.raw \notin BlankStrings THEN "number"
         ELSE "string"

\* part_016 extractSafeSchema: no sampleData at all.
extractSafeSchema(headers, firstRow) ==
    [headers |-> Arr(headers),
     columnTypes |->
        [h \in Range(headers) |->
            IF Truthy(firstRow)
            THEN inferType(firstRow.a, LastIndexOf(headers, h))
            ELSE "string"],
     sampleData |-> Undef,
     extra |-> NoExtra]

validateSchemaOnly_HeadersOnly(s) ==
    ~(s.headers.t = "undef" \/ Len(s.headers.a) = 0)

\* part_016 and ai-service.ts validateSchemaOnly (the same code).
validateSchemaOnly(s) ==
    IF s.headers.t = "undef" \/ Len(s.headers.a) = 0 THEN FALSE
    ELSE IF s.sampleData.t # "undef" /\ Len(s.sampleData.a) > 1 THEN FALSE
    ELSE TRUE

\* The hand-built schemas of a direct call of an orchestrator.
DirectSchemas ==
    { [headers |-> h,
       columnTypes |-> [x \in Range(h.a) |-> "number"],
       sampleData |-> d,
       extra |-> NoExtra] :
      h \in {Undef, Arr(<<>>), Arr(<<"A">>)},
      d \in {Undef, Arr(<<"number">>), Arr(<<"number", "string">>)} }

(***************************************************************************)
(* Providers, adapter outcomes and responses.                              *)
(***************************************************************************)
PROVIDERS_HeaderOrder == <<"DeepSeek", "Cohere", "Groq", "X.AI">>

\* part_016 and ai-service.ts PROVIDERS: the names, in priority order.
PROVIDERS == <<"Groq", "DeepSeek", "X.AI", "Cohere">>

\* part_016 RETRY_CONFIG.timeout, in milliseconds.
RetryTimeout == 15000

\* part_000: rows.slice(0, 20).
SampleRowLimit == 20

NoProvider == "<undefined>"

NoResponse ==
    [success |-> FALSE, type |-> "<none>", code |-> <<>>, explanation |-> <<>>,
     error |-> NoStr, provider |-> NoProvider]

\* {success: false, type: 'error', error: msg}
ErrorResponse(msg) ==
    [success |-> FALSE, type |-> "error", code |-> <<>>, explanation |-> <<>>,
     error |-> Str(msg), provider |-> NoProvider]

\* How a handler's promise settles: it resolves to a success or to a failure
\* response, or it rejects with an Error (message error.s, HTTP status).
Success(type, tagged) ==
    [kind |-> "success", type |-> type, tagged |-> tagged, error |-> NoStr,
     status |-> 0, code |-> <<"=SUM(A:A)">>, explanation |-> <<"sums column A">>]

Fail(err) ==
    [kind |-> "fail", type |-> "error", tagged |-> FALSE, error |-> err,
     status |-> 0, code |-> <<>>, explanation |-> <<>>]

Throw(msg, status) ==
    [kind |-> "throw", type |-> "error", tagged |-> FALSE, error |-> Str(msg),
     status |-> status, code |-> <<>>, explanation |-> <<>>]

\* Mock adapters (a direct call of an orchestrator).
MockOutcomes ==
    { Success("formula", TRUE), Success("transformation", FALSE),
      Fail(NoStr), Fail(Str(<<"quota exceeded">>)),
      Throw(<<"boom">>, 0), Throw(<<>>, 429) }

(***************************************************************************)
(* The repository's adapters: makeGroqRequest (groq.ts lines 100-217),     *)
(* makeDeepSeekRequest (part_020), makeXAIRequest (xai.ts) and             *)
(* makeCohereRequest (cohere.ts).                                          *)
(***************************************************************************)
\* A property the parsed JSON object does not have.
Missing == "<undefined>"

\* What the provider's API answers to fetch.  http is "reject" (fetch
\* rejects), "notok" (response.ok is false), "notjson" (response.json()
\* rejects) or "ok"; choices tells whether the body has a choices array;
\* content is choices[0].message.content (Cohere: text).
Reply(http, status, choices, content) ==
    [http |-> http, status |-> status, choices |-> choices,
     content |-> content]

NoReply == Reply("none", 0, FALSE, NoStr)

FormulaContent ==
    <<"{\"type\":\"formula\",\"code\":\"=SUM(A:A)\",\"explanation\":\"sums column A\"}">>
NoTypeContent == <<"{\"code\":\"=SUM(A:A)\"}">>
ChartContent == <<"{\"type\":\"chart\",\"code\":\"=SUM(A:A)\"}">>
NullContent == <<"null">>
NumberContent == <<"5">>
\* The three backquotes that open or close a fenced block.
Fence == "<fence>"
FencedContent == <<"Use this formula:", "\n", Fence, "=SUM(B:B)", Fence>>
PlainContent == <<"Add the cells of column A.">>

Contents ==
    { FormulaContent, NoTypeContent, ChartContent, NullContent,
      NumberContent, FencedContent, PlainContent }

\* Every answer of the model.
Replies ==
    { Reply("reject", 0, FALSE, NoStr), Reply("notok", 401, FALSE, NoStr),
      Reply("notok", 429, FALSE, NoStr), Reply("notjson", 200, FALSE, NoStr),
      Reply("ok", 200, FALSE, NoStr), Reply("ok", 200, TRUE, NoStr),
      Reply("ok", 200, TRUE, Str(<<>>)) }
    \cup { Reply("ok", 200, TRUE, Str(c)) : c \in Contents }

\* The answers the adapters get when an orchestrator runs them.
OrchestratedReplies ==
    { Reply("notok", 429, FALSE, NoStr),
      Reply("ok", 200, TRUE, Str(FormulaContent)),
      Reply("ok", 200, TRUE, Str(ChartContent)) }

\* One run of an adapter: is its API key set, and what the API answers.
AdapterRuns(replies) ==
    { [key |-> FALSE, reply |-> NoReply] }
    \cup { [key |-> TRUE, reply |-> r] : r \in replies }

\* JSON.parse(content): k is "invalid" when it throws, else the kind of
\* value; for an object, its type, code and explanation.
JSONParse(content) ==
    LET obj(t, c, e) ==
            [k |-> "object", type |-> t, code |-> c, explanation |-> e]
    IN  IF content = FormulaContent
        THEN obj("formula", "=SUM(A:A)", <<"sums column A">>)
        ELSE IF content = NoTypeContent
        THEN obj(Missing, "=SUM(A:A)", <<Missing>>)
        ELSE IF content = ChartContent
        THEN obj("chart", "=SUM(A:A)", <<Missing>>)
        ELSE IF content = NullContent
        THEN [obj(Missing, Missing, <<Missing>>) EXCEPT !.k = "null"]
        ELSE IF content = NumberContent
        THEN [obj(Missing, Missing, <<Missing>>) EXCEPT !.k = "number"]
        ELSE [obj(Missing, Missing, <<Missing>>) EXCEPT !.k = "invalid"]

HandlerTag_Grok(name) == IF name = "X.AI" THEN "Grok" ELSE name

\* The literal each handler of PROVIDERS writes in `provider:`.
HandlerTag(name) ==
    IF name = "Groq" THEN "Groq"
    ELSE IF name = "DeepSeek" THEN "DeepSeek"
    ELSE IF name = "X.AI" THEN "X.AI"
    ELSE "Cohere"

\* if (!apiKey) return {success: false, type: 'error', error: '<name> API
\* key not configured'}
NotConfigured(name) == Fail(Str(<<name, " API key not configured">>))

CallsFetch_Always(hasKey) == TRUE

\* fetch is called when the check of the key has passed.
CallsFetch(hasKey) == hasKey

Caught_Rethrow(msg) == Throw(msg, 0)

\* The catch of an adapter: {success: false, type: 'error',
\* error: error.message, provider: '<name>'}.
Caught(msg) == [Fail(Str(msg)) EXCEPT !.tagged = TRUE]

\* The message of what the try block throws before it parses the content
\* (NoStr: nothing).  optional: the content is read with `?.`.
FetchError(name, reply, optional) ==
    IF reply.http = "reject" THEN Str(<<"fetch failed">>)
    ELSE IF reply.http = "notok"
    THEN Str(<<name, " API error: ", ToString(reply.status), " - ", "{}">>)
    ELSE IF reply.http = "notjson"
    THEN Str(<<"Unexpected end of JSON input">>)
    ELSE IF ~reply.choices /\ ~optional
    THEN Str(<<"Cannot read properties of undefined (reading '0')">>)
    ELSE IF ~TruthyStr(reply.content)
    THEN Str(<<"No content in ", name, " response">>)
    ELSE NoStr

RECURSIVE IndexFrom(_, _, _)
\* The least position >= start of the token tok in s; 0 when none.
IndexFrom(s, tok, start) ==
    IF start > Len(s) THEN 0
    ELSE IF s[start] = tok THEN start
    ELSE IndexFrom(s, tok, start + 1)

RECURSIVE Trim(_)
\* String.prototype.trim, on tokens.
Trim(s) ==
    IF s = <<>> THEN s
    ELSE IF Head(s) = "\n" THEN Trim(Tail(s))
    ELSE IF s[Len(s)] = "\n" THEN Trim(SubSeq(s, 1, Len(s) - 1))
    ELSE s

\* content.match of a fenced block: the first fence and the one after it.
CodeMatch(content) ==
    LET p1 == IndexFrom(content, Fence, 1)
        p2 == IF p1 = 0 THEN 0 ELSE IndexFrom(content, Fence, p1 + 1)
    IN  [found |-> p2 # 0, from |-> p1, to |-> p2]

\* x || d for a property of the parsed object.
OrDefault(x, d) == IF x = Missing \/ x = "" THEN d ELSE x

\* groq.ts lines 100-217.
makeGroqRequest(hasKey, reply) ==
    IF ~hasKey THEN NotConfigured("Groq")
    ELSE IF FetchError("Groq", reply, TRUE) # NoStr
    THEN Caught(FetchError("Groq", reply, TRUE).s)
    ELSE LET content == reply.content.s
             parsed == JSONParse(content)
             m == CodeMatch(content)
         IN  IF parsed.k = "invalid"
             THEN IF m.found
                  THEN [Success("formula", TRUE) EXCEPT
                          !.code = Trim(SubSeq(content, m.from + 1, m.to - 1)),
                          !.explanation =
                              Trim(SubSeq(content, 1, m.from - 1)
                                   \o SubSeq(content, m.to + 1, Len(content)))]
                  ELSE [Success("formula", TRUE) EXCEPT
                          !.code = <<>>, !.explanation = content]
             ELSE IF parsed.k # "object"
             THEN Caught(<<"Invalid response format from Groq">>)
             ELSE [Success(OrDefault(parsed.type, "formula"), TRUE) EXCEPT
                     !.code = IF parsed.code = Missing THEN <<>>
                              ELSE <<parsed.code>>,
                     !.explanation =
                         IF parsed.explanation = <<Missing>>
                         THEN <<"No explanation provided">>
                         ELSE parsed.explanation]

\* The body xai.ts, part_020 and cohere.ts share: JSON.parse(content) with
\* no fallback, and the parsed object's properties as they are.
ParsingAdapter(name, optional, hasKey, reply) ==
    IF ~hasKey THEN NotConfigured(name)
    ELSE IF FetchError(name, reply, optional) # NoStr
    THEN Caught(FetchError(name, reply, optional).s)
    ELSE LET parsed == JSONParse(reply.content.s)
         IN  IF parsed.k = "invalid"
             THEN Caught(<<"Unexpected token in JSON">>)
             ELSE IF parsed.k = "null"
             THEN Caught(<<"Cannot read properties of null (reading 'type')">>)
             ELSE [Success(parsed.type, TRUE) EXCEPT
                     !.code = <<parsed.code>>,
                     !.explanation = parsed.explanation]

\* part_020: data.choices[0]?.message?.content
makeDeepSeekRequest(hasKey, reply) ==
    ParsingAdapter("DeepSeek", FALSE, hasKey, reply)

\* xai.ts: data.choices[0]?.message?.content
makeXAIRequest(hasKey, reply) == ParsingAdapter("X.AI", FALSE, hasKey, reply)

\* cohere.ts: data.text
makeCohereRequest(hasKey, reply) ==
    ParsingAdapter("Cohere", TRUE, hasKey, reply)

\* PROVIDERS: the handler of each name.
Handler(name, hasKey, reply) ==
    IF name = "Groq" THEN makeGroqRequest(hasKey, reply)
    ELSE IF name = "DeepSeek" THEN makeDeepSeekRequest(hasKey, reply)
    ELSE IF name = "X.AI" THEN makeXAIRequest(hasKey, reply)
    ELSE makeCohereRequest(hasKey, reply)

\* The entry of fetches for one run of an adapter.
FetchRecord(name, run) ==
    [provider |-> name, key |-> run.key, sent |-> CallsFetch(run.key),
     reply |-> run.reply]

\* The response a handler resolved to.
AdapterResponse(o, name) ==
    [success |-> o.kind = "success", type |-> o.type,
     code |-> o.code, explanation |-> o.explanation, error |-> o.error,
     provider |-> IF o.tagged THEN HandlerTag(name) ELSE NoProvider]

RECURSIVE Join(_, _)
\* Array.prototype.join on strings.
Join(strs, sep) ==
    IF strs = <<>> THEN <<>>
    ELSE IF Len(strs) = 1 THEN strs[1]
    ELSE strs[1] \o <<sep>> \o Join(Tail(strs), sep)

(***************************************************************************)
(* part_016: makeAIRequestWithFallback and its helpers.                    *)
(***************************************************************************)
SecurityViolation ==
    ErrorResponse(<<"Security violation", ": Schema contains actual data rows">>)

TimeoutError_NoMessage(name) == Throw(<<>>, 0)

\* executeWithTimeout: what the timer rejects the race with.
TimeoutError(name) ==
    Throw(<<name, " request timeout after ", ToString(RetryTimeout), "ms">>, 0)

\* FALLBACK_ERROR_CODES
FALLBACK_ERROR_CODES == {429, 503, 504, 500, 502}

\* The tokens that, lowercased, include 'rate limit', 'timeout',
\* 'unavailable' or 'quota'.
FallbackTokens ==
    {"quota exceeded", " request timeout after ", "rate limit",
     "service unavailable"}

shouldFallback(o) ==
    IF o.status # 0 /\ o.status \in FALLBACK_ERROR_CODES THEN TRUE
    ELSE IF \E i \in 1..Len(o.error.s) : o.error.s[i] \in FallbackTokens
         THEN TRUE
         ELSE FALSE

AttemptRecord_Anonymous(name, o) ==
    [provider |-> "provider", error |-> <<"failed">>]

\* What the loop pushes on attemptLog for an attempt that did not succeed:
\* response.error || 'Unknown error', error.message || 'Unknown exception'.
AttemptRecord(name, o) ==
    [provider |-> name,
     error |-> IF TruthyStr(o.error) THEN o.error.s
               ELSE IF o.kind = "fail" THEN <<"Unknown error">>
               ELSE <<"Unknown exception">>]

generateFailureMessage_Reversed(log) ==
    <<"All AI providers failed. ">> \o
    Join([i \in 1..Len(log) |->
            <<log[Len(log) + 1 - i].provider, ": ">>
                \o log[Len(log) + 1 - i].error], " | ")

generateFailureMessage(log) ==
    <<"All AI providers failed. ">> \o
    Join([i \in 1..Len(log) |-> <<log[i].provider, ": ">> \o log[i].error],
         " | ")

(***************************************************************************)
(* ai-service.ts: makeAIRequest.                                           *)
(***************************************************************************)
\* errors.push(`${provider.name}: ${response.error}`), and the same with
\* error.message in the catch.
ErrorEntry(name, o) == <<name, ": ">> \o Interpolate(o.error)

AllFailed_FirstOnly(errs) ==
    <<"All AI providers failed. Errors: ">> \o Head(errs)

AllFailed(errs) ==
    <<"All AI providers failed. Errors: ">> \o Join(errs, " | ")

(***************************************************************************)
(* The hooks before they are used.                                         *)
(***************************************************************************)
\* null, as the value of a state that holds an object or null.
Null == "null"

\* useSpreadsheet.ts 9-16: the useState initial values.  pending counts the
\* loadSpreadsheet calls that await their download.
NoSheet ==
    [data |-> Null, loading |-> FALSE, error |-> NoStr,
     undoRedo |-> [past |-> <<>>, present |-> Null, future |-> <<>>],
     pending |-> 0]

\* useFileUpload.ts 20-21: uploads = {} and isUploading = false.  running
\* holds the position of each uploadFile call and batch the position of the
\* uploadMultipleFiles call on its files.
NoUpload ==
    [uploads |-> <<>>, isUploading |-> FALSE, running |-> <<>>,
     batch |-> "none", files |-> {}]

NoUnique ==
    [filename |-> <<>>, existingNames |-> <<>>, result |-> <<>>,
     pc |-> "start"]

HooksIdle ==
    /\ sheet = NoSheet
    /\ upload = NoUpload
    /\ unique = NoUnique

(***************************************************************************)
(* The calls of the model.                                                 *)
(***************************************************************************)
\* route.ts (firstRow); part_000 lines 1-45 (rows, enhanced schema), lines
\* 47-83 (rows) and lines 85-120 (firstRow).
PostVariants == {"route", "rowsEnhanced", "rows", "firstRow"}

\* A direct call of makeAIRequestWithFallback, of makeAIRequest or of one
\* adapter.
Entries == {"fallback", "simple", "adapter"} \cup PostVariants

UsesRows(e) == e \in {"rowsEnhanced", "rows"}

NoBody ==
    [kind |-> "none", query |-> NoStr, headers |-> Undef, firstRow |-> Undef,
     rows |-> Undef]

\* A body that is not JSON, the JSON value null, or a JSON object; the
\* property a variant does not read is left out.
Bodies(e) ==
    { [NoBody EXCEPT !.kind = "malformed"], [NoBody EXCEPT !.kind = "null"] }
    \cup
    { [kind |-> "object", query |-> q, headers |-> h, firstRow |-> f,
       rows |-> r] :
      q \in QueryInputs, h \in HeadersInputs,
      f \in IF UsesRows(e) THEN {Undef} ELSE FirstRowInputs,
      r \in IF UsesRows(e) THEN RowsInputs ELSE {Undef} }

Init ==
    /\ entry \in Entries
    /\ body \in IF entry \in PostVariants THEN Bodies(entry) ELSE {NoBody}
    /\ query = IF entry \in PostVariants THEN NoStr
               ELSE Str(<<"sum column A">>)
    /\ schema \in IF entry \in PostVariants THEN {NoSchema}
                ELSE IF entry = "adapter"
                THEN {[headers |-> Arr(<<"A">>),
                       columnTypes |-> [x \in {"A"} |-> "number"],
                       sampleData |-> Undef, extra |-> NoExtra]}
                ELSE DirectSchemas
    /\ pc = "start"
    /\ idx = 0
    /\ attemptLog = <<>>
    /\ errors = <<>>
    /\ response = NoResponse
    /\ term = "none"
    /\ httpStatus = 0
    /\ httpBody = NoResponse
    /\ invoked = <<>>
    /\ handed = <<>>
    /\ outcomes = <<>>
    /\ late = [i \in 1..Len(PROVIDERS) |-> "none"]
    /\ called = {}
    /\ thrown = NoStr
    /\ fetches = <<>>
    /\ calls = <<>>
    /\ HooksIdle

(***************************************************************************)
(* The orchestrators' loop.                                                *)
(***************************************************************************)
Invoke_Parallel(k, q, s) ==
    /\ pc' = "awaiting"
    /\ idx' = k
    /\ invoked' = IF k < Len(PROVIDERS)
                  THEN invoked \o <<PROVIDERS[k], PROVIDERS[k + 1]>>
                  ELSE Append(invoked, PROVIDERS[k])
    /\ handed' = Append(handed, [query |-> q, schema |-> s])
    /\ UNCHANGED <<response, term, httpStatus, httpBody>>

\* provider.handler(query, schema) is called and awaited.
Invoke(k, q, s) ==
    /\ pc' = "awaiting"
    /\ idx' = k
    /\ invoked' = Append(invoked, PROVIDERS[k])
    /\ handed' = Append(handed, [query |-> q, schema |-> s])
    /\ UNCHANGED <<response, term, httpStatus, httpBody>>

\* The orchestrator returns r; POST answers NextResponse.json(response).
Return(r, t) ==
    /\ pc' = "done"
    /\ idx' = 0
    /\ response' = r
    /\ term' = t
    /\ IF entry \in PostVariants
       THEN httpStatus' = 200 /\ httpBody' = r
       ELSE UNCHANGED <<httpStatus, httpBody>>
    /\ UNCHANGED <<invoked, handed>>

IsSuccess_Never(r) == FALSE

\* if (response.success)
IsSuccess(r) == r.success

NextIndex_Retry(k) == k

\* for (const provider of PROVIDERS): the provider after PROVIDERS[k].
NextIndex(k) == k + 1

EndOfLoopBody_Break(next, log) ==
    Return(ErrorResponse(generateFailureMessage(log)), "Exhausted")

\* part_016 lines 142-150: shouldFallback(error) was false, the catch block
\* ends and with it the body of the loop: for...of takes the next provider.
EndOfLoopBody(next, log) == next

\* part_016 lines 99-150: the race for PROVIDERS[idx] settled with o.
FallbackSettled(o) ==
    LET name == PROVIDERS[idx]
        r == AdapterResponse(o, name)
        log == Append(attemptLog, AttemptRecord(name, o))
        next ==
            IF idx < Len(PROVIDERS)
            THEN Invoke(NextIndex(idx), query, schema)
            ELSE Return(ErrorResponse(generateFailureMessage(log)),
                        "Exhausted")
    IN  IF o.kind # "throw" /\ IsSuccess(r)
        THEN /\ Return([r EXCEPT !.provider = name], "Succeeded")
             /\ UNCHANGED attemptLog
        ELSE /\ attemptLog' = log
             /\ IF o.kind = "throw" /\ shouldFallback(o)
                THEN next     \* continue
                ELSE EndOfLoopBody(next, log)

\* ai-service.ts lines 38-66: the handler of PROVIDERS[idx] settled with o.
SimpleSettled(o) ==
    LET name == PROVIDERS[idx]
        r == AdapterResponse(o, name)
        errs == Append(errors, ErrorEntry(name, o))
    IN  IF o.kind # "throw" /\ IsSuccess(r)
        THEN /\ Return(r, "Succeeded")
             /\ UNCHANGED errors
        ELSE /\ errors' = errs
             /\ IF idx < Len(PROVIDERS)
                THEN Invoke(NextIndex(idx), query, schema)
                ELSE Return(ErrorResponse(AllFailed(errs)), "Exhausted")

RaceSettledLater_Overwrite(current, lateResponse) == lateResponse

\* Promise.race: a promise that settles after the race has settled changes
\* nothing.
RaceSettledLater(current, lateResponse) == current

(***************************************************************************)
(* The entrypoint.                                                         *)
(***************************************************************************)
\* rows && rows.length > 0 ? rows[0] : undefined, or the body's firstRow.
FirstRowOf(e, b) ==
    IF UsesRows(e)
    THEN IF Truthy(b.rows) /\ Len(b.rows.a) > 0 THEN Arr(b.rows.a[1])
         ELSE Undef
    ELSE b.firstRow

MissingParameters_QueryOnly(b) == ~TruthyStr(b.query)

\* if (!query || !headers)
MissingParameters(b) == ~TruthyStr(b.query) \/ ~Truthy(b.headers)

MissingParametersResponse ==
    ErrorResponse(<<"Missing required parameters",
                    ": query and headers are required">>)

\* The schema POST hands to makeAIRequest.
BuildSchema(e, b) ==
    LET s == extractSchema(b.headers.a, FirstRowOf(e, b))
    IN  IF e = "rowsEnhanced"
        THEN [s EXCEPT !.extra =
                 [present |-> TRUE,
                  rowCount |-> IF Truthy(b.rows) THEN Len(b.rows.a) ELSE 0,
                  sampleRows |-> IF Truthy(b.rows)
                                 THEN Take(b.rows.a, SampleRowLimit)
                                 ELSE <<>>]]
        ELSE s

\* What `await request.json()` and the destructuring throw.
ParseError(b) ==
    IF b.kind = "malformed" THEN Str(<<"Unexpected token in JSON">>)
    ELSE IF b.kind = "null"
         THEN Str(<<"Cannot destructure property 'query' of null">>)
         ELSE NoStr

CatchResponse_Swallow(e, err) == ErrorResponse(<<>>)

\* The catch of POST: error.message || 'Internal server error' (route.ts),
\* error instanceof Error ? error.message : 'Internal server error'
\* (part_000).  err is the message of the Error thrown.
CatchResponse(e, err) ==
    ErrorResponse(
        IF e = "route"
        THEN IF TruthyStr(err) THEN err.s ELSE <<"Internal server error">>
        ELSE IF err.t = "str" THEN err.s ELSE <<"Internal server error">>)

Respond(status, r, t) ==
    /\ pc' = "done"
    /\ idx' = 0
    /\ httpStatus' = status
    /\ httpBody' = r
    /\ term' = t
    /\ UNCHANGED <<response, invoked, handed, query, schema>>

POST ==
    /\ pc = "start"
    /\ entry \in PostVariants
    /\ LET fr == FirstRowOf(entry, body)
       IN  IF ParseError(body) # NoStr
           THEN /\ thrown' = ParseError(body)
                /\ Respond(500, CatchResponse(entry, ParseError(body)),
                           "ServerError")
                /\ UNCHANGED called
           ELSE IF MissingParameters(body)
           THEN /\ Respond(400, MissingParametersResponse, "BadRequest")
                /\ UNCHANGED <<called, thrown>>
           ELSE IF extractSchemaError(body.headers, fr) # NoStr
           THEN /\ called' = called \cup {"extractSchema"}
                /\ thrown' = extractSchemaError(body.headers, fr)
                /\ Respond(500,
                           CatchResponse(entry,
                               extractSchemaError(body.headers, fr)),
                           "ServerError")
           ELSE /\ called' = called \cup {"extractSchema", "makeAIRequest"}
                /\ schema' = BuildSchema(entry, body)
                /\ query' = body.query
                /\ Invoke(1, body.query, BuildSchema(entry, body))
                /\ UNCHANGED thrown
    /\ UNCHANGED <<entry, body, attemptLog, errors, outcomes, late, fetches,
                   calls, hooks>>

\* part_016 lines 75-103: the security check, then the first provider.
makeAIRequestWithFallback ==
    /\ pc = "start"
    /\ entry = "fallback"
    /\ IF ~validateSchemaOnly(schema)
       THEN Return(SecurityViolation, "Rejected")
       ELSE Invoke(1, query, schema)
    /\ UNCHANGED <<entry, body, query, schema, attemptLog, errors, outcomes,
                   late, called, thrown, fetches, calls, hooks>>

\* ai-service.ts lines 31-42: the first provider, with no check.
makeAIRequest ==
    /\ pc = "start"
    /\ entry = "simple"
    /\ Invoke(1, query, schema)
    /\ UNCHANGED <<entry, body, query, schema, attemptLog, errors, outcomes,
                   late, called, thrown, fetches, calls, hooks>>

\* The awaited handler has settled with o.
Settled(o) ==
    /\ outcomes' = Append(outcomes, o)
    /\ IF entry = "fallback"
       THEN FallbackSettled(o) /\ UNCHANGED errors
       ELSE SimpleSettled(o) /\ UNCHANGED attemptLog

\* The awaited handler settles: a mock adapter in a direct call, the
\* repository's adapter on the path from POST.
HandlerSettles ==
    /\ pc = "awaiting"
    /\ IF entry \in PostVariants
       THEN \E run \in AdapterRuns(OrchestratedReplies) :
               /\ fetches' = Append(fetches, FetchRecord(PROVIDERS[idx], run))
               /\ Settled(Handler(PROVIDERS[idx], run.key, run.reply))
       ELSE \E o \in MockOutcomes :
               /\ Settled(o)
               /\ UNCHANGED fetches
    /\ UNCHANGED <<entry, body, query, schema, late, called, thrown, calls, hooks>>

\* One of the adapters is called alone, as makeXAIRequest(query, schema).
AdapterCall ==
    /\ pc = "start"
    /\ entry = "adapter"
    /\ \E name \in Range(PROVIDERS), run \in AdapterRuns(Replies) :
          LET o == Handler(name, run.key, run.reply)
          IN  /\ fetches' = Append(fetches, FetchRecord(name, run))
              /\ response' = IF o.kind = "throw" THEN NoResponse
                             ELSE AdapterResponse(o, name)
              /\ term' = IF o.kind = "throw" THEN "AdapterRejected"
                         ELSE "AdapterResolved"
    /\ pc' = "done"
    /\ UNCHANGED <<entry, body, query, schema, idx, attemptLog, errors,
                   httpStatus, httpBody, invoked, handed, outcomes, late,
                   called, thrown, calls, hooks>>

\* executeWithTimeout: the timer fires before the handler settles; the
\* handler's call goes on, abandoned.
TimerFires ==
    /\ pc = "awaiting"
    /\ entry = "fallback"
    /\ outcomes' = Append(outcomes,
           [TimeoutError(PROVIDERS[idx]) EXCEPT !.kind = "timeout"])
    /\ FallbackSettled(TimeoutError(PROVIDERS[idx]))
    /\ late' = [late EXCEPT ![idx] = "pending"]
    /\ UNCHANGED <<entry, body, query, schema, errors, called, thrown,
                   fetches, calls, hooks>>

\* An abandoned handler settles at last.
LateSettle ==
    /\ \E j \in 1..Len(PROVIDERS), o \in MockOutcomes :
          /\ late[j] = "pending"
          /\ late' = [late EXCEPT ![j] = o.kind]
          /\ response' =
                RaceSettledLater(response, AdapterResponse(o, PROVIDERS[j]))
    /\ UNCHANGED <<entry, body, query, schema, pc, idx, attemptLog, errors,
                   term, httpStatus, httpBody, invoked, handed, outcomes,
                   called, thrown, fetches, calls, hooks>>

Next ==
    \/ POST
    \/ makeAIRequestWithFallback
    \/ makeAIRequest
    \/ HandlerSettles
    \/ AdapterCall
    \/ TimerFires
    \/ LateSettle

Spec == Init /\ [][Next]_vars

\* The event loop runs what is ready: a call that was made starts, and the
\* timer of executeWithTimeout fires RETRY_CONFIG.timeout after it was set.
\* Nothing makes a handler settle: a provider that does not answer leaves
\* its fetch, and so its handler, pending.
SpecFair ==
    /\ Spec
    /\ WF_vars(POST)
    /\ WF_vars(makeAIRequestWithFallback)
    /\ WF_vars(makeAIRequest)
    /\ WF_vars(TimerFires)

(***************************************************************************)
(* Two calls of the orchestrators that run concurrently: each turn of the  *)
(* event loop belongs to one call, and the turns of the two interleave.    *)
(* What a call keeps (attemptLog, errors, the index of the loop) is local  *)
(* to the call of the function.                                            *)
(***************************************************************************)
CallIds == {1, 2}

\* The handlers answer each request on its own: a failure names the request.
ConcurrentOutcomes(c) ==
    { Success("formula", TRUE),
      Fail(Str(<<"no answer to request ", ToString(c)>>)),
      Throw(<<"request ", ToString(c), " was refused">>, 0) }

\* The local state of a call that was made and has not run yet.
NewCall(orch) ==
    [orch |-> orch, pc |-> "start", idx |-> 0, attemptLog |-> <<>>,
     errors |-> <<>>, response |-> NoResponse, term |-> "none",
     invoked |-> <<>>, outcomes |-> <<>>]

\* The call runs to its first await (the schema is one that
\* validateSchemaOnly accepts).
Started(call) ==
    [call EXCEPT !.pc = "awaiting", !.idx = 1, !.invoked = <<PROVIDERS[1]>>]

\* The loop's body after the attempt on PROVIDERS[call.idx] concluded with o
\* (part_016 lines 105-150, ai-service.ts lines 44-57), and what follows it.
AfterAttempt(call, o) ==
    LET name == PROVIDERS[call.idx]
        r == AdapterResponse(o, name)
        fallback == call.orch = "fallback"
        log == Append(call.attemptLog, AttemptRecord(name, o))
        errs == Append(call.errors, ErrorEntry(name, o))
        seen == [call EXCEPT !.outcomes = Append(@, o)]
        failed == IF fallback THEN [seen EXCEPT !.attemptLog = log]
                  ELSE [seen EXCEPT !.errors = errs]
    IN  IF o.kind \notin {"throw", "timeout"} /\ IsSuccess(r)
        THEN [seen EXCEPT !.pc = "done", !.idx = 0, !.term = "Succeeded",
                          !.response = IF fallback
                                       THEN [r EXCEPT !.provider = name]
                                       ELSE r]
        ELSE IF call.idx < Len(PROVIDERS)
        THEN [failed EXCEPT !.idx = NextIndex(call.idx),
                            !.invoked =
                                Append(@, PROVIDERS[NextIndex(call.idx)])]
        ELSE [failed EXCEPT !.pc = "done", !.idx = 0, !.term = "Exhausted",
                            !.response =
                                ErrorResponse(
                                    IF fallback
                                    THEN generateFailureMessage(log)
                                    ELSE AllFailed(errs))]

StoreCall_SharedLog(cs, c, new) ==
    [x \in DOMAIN cs |->
        IF x = c THEN new
        ELSE [cs[x] EXCEPT !.attemptLog = new.attemptLog,
                           !.errors = new.errors]]

\* `const attemptLog = []` and `const errors = []` are made anew by each
\* call: a turn of call c writes the state of call c only.
StoreCall(cs, c, new) == [cs EXCEPT ![c] = new]

single ==
    <<entry, body, query, schema, pc, idx, attemptLog, errors, response,
      term, httpStatus, httpBody, invoked, handed, outcomes, late, called,
      thrown, fetches>>

InitTwo ==
    /\ entry = "concurrent"
    /\ body = NoBody
    /\ query = Str(<<"sum column A">>)
    /\ schema = NoSchema
    /\ pc = "done"
    /\ idx = 0
    /\ attemptLog = <<>>
    /\ errors = <<>>
    /\ response = NoResponse
    /\ term = "none"
    /\ httpStatus = 0
    /\ httpBody = NoResponse
    /\ invoked = <<>>
    /\ handed = <<>>
    /\ outcomes = <<>>
    /\ late = [i \in 1..Len(PROVIDERS) |-> "none"]
    /\ called = {}
    /\ thrown = NoStr
    /\ fetches = <<>>
    /\ calls \in [CallIds -> {NewCall("fallback"), NewCall("simple")}]
    /\ HooksIdle

\* A call runs from its start to its first await.
CallStarts ==
    /\ \E c \in CallIds :
          /\ calls[c].pc = "start"
          /\ calls' = StoreCall(calls, c, Started(calls[c]))
    /\ UNCHANGED <<single, hooks>>

\* The handler a call awaits settles.
CallSettles ==
    /\ \E c \in CallIds :
          /\ calls[c].pc = "awaiting"
          /\ \E o \in ConcurrentOutcomes(c) :
                calls' = StoreCall(calls, c, AfterAttempt(calls[c], o))
    /\ UNCHANGED <<single, hooks>>

\* The timer of a call of makeAIRequestWithFallback fires.
CallTimerFires ==
    /\ \E c \in CallIds :
          /\ calls[c].pc = "awaiting"
          /\ calls[c].orch = "fallback"
          /\ calls' = StoreCall(calls, c,
                AfterAttempt(calls[c],
                    [TimeoutError(PROVIDERS[calls[c].idx])
                        EXCEPT !.kind = "timeout"]))
    /\ UNCHANGED <<single, hooks>>

NextTwo ==
    \/ CallStarts
    \/ CallSettles
    \/ CallTimerFires

SpecTwo == InitTwo /\ [][NextTwo]_vars

(***************************************************************************)
(* The schema extractors called on their own: SpecSchema draws the headers *)
(* and the sample row of one call from the values below and applies        *)
(* ai-service.ts extractSchema or part_016 extractSafeSchema to them.      *)
(***************************************************************************)
\* The values of a sample row's cell: null, undefined, a number, a boolean,
\* a Date, a plain object, and strings that are an ISO date, numeric, blank
\* or none of these.
SchemaCells ==
    { [ty |-> "object", raw |-> "null"],
      [ty |-> "undefined", raw |-> "undefined"],
      [ty |-> "number", raw |-> "42"],
      [ty |-> "boolean", raw |-> "true"],
      [ty |-> "object", raw |-> "new Date(0)"],
      [ty |-> "object", raw |-> "{}"],
      [ty |-> "string", raw |-> "2024-01-15"],
      [ty |-> "string", raw |-> "Infinity"],
      [ty |-> "string", raw |-> ""],
      [ty |-> "string", raw |-> "hello"] }

\* headers: string[], a column name may repeat.
SchemaHeaders ==
    {SubSeq(AllHeaders, 1, n) : n \in 0..MaxCols} \cup {<<"A", "A">>}

\* firstRow?: any[]
SchemaFirstRows == {Undef} \cup {Arr(r) : r \in SeqsUpTo(SchemaCells, MaxCells)}

Extractors == {"extractSchema", "extractSafeSchema"}

InitSchema ==
    /\ entry \in Extractors
    /\ body \in { [kind |-> "object", query |-> NoStr, headers |-> Arr(h),
                   firstRow |-> f, rows |-> Undef] :
                 h \in SchemaHeaders, f \in SchemaFirstRows }
    /\ query = NoStr
    /\ schema = NoSchema
    /\ pc = "start"
    /\ idx = 0
    /\ attemptLog = <<>>
    /\ errors = <<>>
    /\ response = NoResponse
    /\ term = "none"
    /\ httpStatus = 0
    /\ httpBody = NoResponse
    /\ invoked = <<>>
    /\ handed = <<>>
    /\ outcomes = <<>>
    /\ late = [i \in 1..Len(PROVIDERS) |-> "none"]
    /\ called = {}
    /\ thrown = NoStr
    /\ fetches = <<>>
    /\ calls = <<>>
    /\ HooksIdle

\* ai-service.ts: const schema = extractSchema(headers, firstRow)
CallExtractSchema ==
    /\ entry = "extractSchema"
    /\ pc = "start"
    /\ schema' = extractSchema(body.headers.a, body.firstRow)
    /\ pc' = "done"
    /\ term' = "Extracted"
    /\ UNCHANGED <<entry, body, query, idx, attemptLog, errors, response,
                   httpStatus, httpBody, invoked, handed, outcomes, late,
                   called, thrown, fetches, calls, hooks>>

\* part_016: const schema = extractSafeSchema(headers, firstRow)
CallExtractSafeSchema ==
    /\ entry = "extractSafeSchema"
    /\ pc = "start"
    /\ schema' = extractSafeSchema(body.headers.a, body.firstRow)
    /\ pc' = "done"
    /\ term' = "Extracted"
    /\ UNCHANGED <<entry, body, query, idx, attemptLog, errors, response,
                   httpStatus, httpBody, invoked, handed, outcomes, late,
                   called, thrown, fetches, calls, hooks>>

NextSchema ==
    \/ CallExtractSchema
    \/ CallExtractSafeSchema

SpecSchema == InitSchema /\ [][NextSchema]_vars

(***************************************************************************)
(* useSpreadsheet: the undo history of the spreadsheet editor.  SpecSheet  *)
(* runs one instance of the hook; the HyperFormula sheet it keeps in a ref *)
(* is outside the model.                                                   *)
(***************************************************************************)
\* No orchestrator call is running.
OrchestratorIdle ==
    /\ entry = "none"
    /\ body = NoBody
    /\ query = NoStr
    /\ schema = NoSchema
    /\ pc = "done"
    /\ idx = 0
    /\ attemptLog = <<>>
    /\ errors = <<>>
    /\ response = NoResponse
    /\ term = "none"
    /\ httpStatus = 0
    /\ httpBody = NoResponse
    /\ invoked = <<>>
    /\ handed = <<>>
    /\ outcomes = <<>>
    /\ late = [i \in 1..Len(PROVIDERS) |-> "none"]
    /\ called = {}
    /\ thrown = NoStr
    /\ fetches = <<>>
    /\ calls = <<>>

\* The longest past the model lets updateData build.
MaxHistory == 3

\* The loadSpreadsheet calls that may await their download at a time.
MaxLoads == 1

\* The SpreadsheetData objects of the model.
SheetData == {"sheet1", "sheet2"}

\* The updater of updateData.
UpdateState(prev, newData) ==
    [past |-> IF prev.present # Null THEN Append(prev.past, prev.present)
              ELSE prev.past,
     present |-> newData,
     future |-> <<>>]

\* The updater of undo.
UndoState(prev) ==
    IF Len(prev.past) = 0 THEN prev
    ELSE [past |-> SubSeq(prev.past, 1, Len(prev.past) - 1),
          present |-> prev.past[Len(prev.past)],
          future |-> IF prev.present # Null
                     THEN <<prev.present>> \o prev.future
                     ELSE prev.future]

RedoState_ForgetPresent(prev) ==
    IF Len(prev.future) = 0 THEN prev
    ELSE [past |-> prev.past,
          present |-> prev.future[1],
          future |-> Tail(prev.future)]

\* The updater of redo.
RedoState(prev) ==
    IF Len(prev.future) = 0 THEN prev
    ELSE [past |-> IF prev.present # Null
                   THEN Append(prev.past, prev.present)
                   ELSE prev.past,
          present |-> prev.future[1],
          future |-> Tail(prev.future)]

InitSheet ==
    /\ OrchestratorIdle
    /\ sheet = NoSheet
    /\ upload = NoUpload
    /\ unique = NoUnique

\* loadSpreadsheet up to `await fetch(url)`.
loadSpreadsheet ==
    /\ sheet.pending < MaxLoads
    /\ sheet' = [sheet EXCEPT !.loading = TRUE, !.error = NoStr,
                              !.pending = @ + 1]
    /\ UNCHANGED <<single, calls, upload, unique>>

\* The download was read: setData, setUndoRedo, and finally setLoading.
LoadResolves ==
    /\ sheet.pending > 0
    /\ \E d \in SheetData :
          sheet' = [sheet EXCEPT
                       !.data = d,
                       !.undoRedo = [past |-> <<>>, present |-> d,
                                     future |-> <<>>],
                       !.loading = FALSE,
                       !.pending = @ - 1]
    /\ UNCHANGED <<single, calls, upload, unique>>

\* fetch or XLSX.read threw, or the sheet was empty: setError, setLoading.
LoadRejects ==
    /\ sheet.pending > 0
    /\ \E msg \in {<<"Empty spreadsheet">>, <<>>} :
          sheet' = [sheet EXCEPT
                       !.error = Str(IF msg # <<>> THEN msg
                                     ELSE <<"Failed to load spreadsheet">>),
                       !.loading = FALSE,
                       !.pending = @ - 1]
    /\ UNCHANGED <<single, calls, upload, unique>>

\* updateData(newData)
updateData ==
    /\ Len(sheet.undoRedo.past) < MaxHistory
    /\ \E newData \in SheetData :
          sheet' = [sheet EXCEPT
                       !.undoRedo = UpdateState(@, newData),
                       !.data = newData]
    /\ UNCHANGED <<single, calls, upload, unique>>

\* updateCell: a copy of data with one cell changed goes to updateData.
updateCell ==
    /\ sheet.data # Null
    /\ Len(sheet.undoRedo.past) < MaxHistory
    /\ \E newData \in SheetData \ {sheet.data} :
          sheet' = [sheet EXCEPT
                       !.undoRedo = UpdateState(@, newData),
                       !.data = newData]
    /\ UNCHANGED <<single, calls, upload, unique>>

\* undo(): setData(previous) runs only when there is a past.
undo ==
    /\ sheet' = [sheet EXCEPT
                     !.undoRedo = UndoState(@),
                     !.data = IF Len(sheet.undoRedo.past) = 0 THEN @
                              ELSE UndoState(sheet.undoRedo).present]
    /\ UNCHANGED <<single, calls, upload, unique>>

\* redo(): setData(next) runs only when there is a future.
redo ==
    /\ sheet' = [sheet EXCEPT
                     !.undoRedo = RedoState(@),
                     !.data = IF Len(sheet.undoRedo.future) = 0 THEN @
                              ELSE RedoState(sheet.undoRedo).present]
    /\ UNCHANGED <<single, calls, upload, unique>>

NextSheet ==
    \/ loadSpreadsheet
    \/ LoadResolves
    \/ LoadRejects
    \/ updateData
    \/ updateCell
    \/ undo
    \/ redo

SpecSheet == InitSheet /\ [][NextSheet]_vars

(***************************************************************************)
(* getUniqueFilename (part_015).  A string is the sequence of its          *)
(* characters.  SpecUnique calls the function once on a file name and a    *)
(* list of existing names.                                                 *)
(***************************************************************************)
\* The longest list of existing names.
MaxExisting == 3

\* String.prototype.toLowerCase on the characters of the model.
ToLowerChar(c) ==
    IF c = "A" THEN "a"
    ELSE IF c = "T" THEN "t"
    ELSE IF c = "X" THEN "x"
    ELSE c

ToLowerCase(str) == [i \in 1..Len(str) |-> ToLowerChar(str[i])]

\* filename.lastIndexOf('.'), counted from 1; 0 stands for -1.
LastDotIndex(str) ==
    IF \E i \in 1..Len(str) : str[i] = "."
    THEN CHOOSE i \in 1..Len(str) :
            /\ str[i] = "."
            /\ \A j \in (i + 1)..Len(str) : str[j] # "."
    ELSE 0

\* The template literal's `${counter}`: the decimal digits of a number.
RECURSIVE DigitsOf(_)
DigitsOf(n) ==
    LET digit == <<"0", "1", "2", "3", "4", "5", "6", "7", "8", "9">>
    IN  IF n < 10 THEN <<digit[n + 1]>>
        ELSE DigitsOf(n \div 10) \o <<digit[(n % 10) + 1]>>

\* `${name} (${counter})${ext}`
NewFilename(filename, counter) ==
    LET lastDotIndex == LastDotIndex(filename)
        name == IF lastDotIndex # 0
                THEN SubSeq(filename, 1, lastDotIndex - 1) ELSE filename
        ext == IF lastDotIndex # 0
               THEN SubSeq(filename, lastDotIndex, Len(filename)) ELSE <<>>
    IN  name \o <<" ", "(">> \o DigitsOf(counter) \o <<")">> \o ext

existingNamesSet_CaseSensitive(existingNames) == Range(existingNames)

\* new Set(existingNames.map(name => name.toLowerCase()))
existingNamesSet(existingNames) ==
    {ToLowerCase(existingNames[i]) : i \in 1..Len(existingNames)}

\* The while loop, from the value of counter on.
RECURSIVE WhileTaken(_, _, _)
WhileTaken(filename, names, counter) ==
    IF ToLowerCase(NewFilename(filename, counter)) \in names
    THEN WhileTaken(filename, names, counter + 1)
    ELSE NewFilename(filename, counter)

getUniqueFilename(filename, existingNames) ==
    LET names == existingNamesSet(existingNames)
    IN  IF ToLowerCase(filename) \notin names THEN filename
        ELSE WhileTaken(filename, names, 1)

\* The file names of the model: a.txt, A.TXT, a and .a
Filenames ==
    { <<"a", ".", "t", "x", "t">>,
      <<"A", ".", "T", "X", "T">>,
      <<"a">>,
      <<".", "a">> }

\* The names a folder may hold besides: names that getUniqueFilename has
\* made before.
TakenNames ==
    { <<"a", " ", "(", "1", ")", ".", "t", "x", "t">>,
      <<"A", " ", "(", "2", ")", ".", "t", "x", "t">>,
      <<"a", " ", "(", "1", ")">>,
      <<" ", "(", "1", ")", ".", "a">> }

InitUnique ==
    /\ OrchestratorIdle
    /\ sheet = NoSheet
    /\ upload = NoUpload
    /\ unique \in { [NoUnique EXCEPT !.filename = f, !.existingNames = e] :
                     f \in Filenames,
                     e \in SeqsUpTo(Filenames \cup TakenNames, MaxExisting) }

\* finalFileName = getUniqueFilename(file.name, existingNames)
CallGetUniqueFilename ==
    /\ unique.pc = "start"
    /\ unique' = [unique EXCEPT
                      !.result = getUniqueFilename(unique.filename,
                                                   unique.existingNames),
                      !.pc = "done"]
    /\ UNCHANGED <<single, calls, sheet, upload>>

NextUnique ==
    \/ CallGetUniqueFilename

SpecUnique == InitUnique /\ [][NextUnique]_vars

(***************************************************************************)
(* useFileUpload: SpecUpload runs one instance of the hook.  Each file of  *)
(* the model is uploaded at most once; a turn of the event loop is one     *)
(* action, and the state changes of a turn are applied together.           *)
(***************************************************************************)
\* The files of the model.
MaxUploads == 2

UploadFiles == 1..MaxUploads

\* file.name of each file: a.txt, A.TXT and a.
UploadName(f) ==
    IF f % 3 = 1 THEN <<"a", ".", "t", "x", "t">>
    ELSE IF f % 3 = 2 THEN <<"A", ".", "T", "X", "T">>
    ELSE <<"a">>

\* What getFilesInFolder finds in the folder.
FolderContents == {<<>>, <<<<"a", ".", "t", "x", "t">>>>}

\* prev[fileId] of a fileId that uploads does not hold: spreading it adds
\* no property.
NoEntry ==
    [fileName |-> NoStr, progress |-> Missing, status |-> Missing,
     error |-> NoStr]

EntryOf(uploads, f) == IF f \in DOMAIN uploads THEN uploads[f] ELSE NoEntry

\* setUploads(prev => ({ ...prev, [fileId]: e }))
SetEntry(uploads, f, e) ==
    [x \in DOMAIN uploads \cup {f} |-> IF x = f THEN e ELSE uploads[x]]

SetPosition(running, f, p) ==
    [x \in DOMAIN running \cup {f} |-> IF x = f THEN p ELSE running[x]]

\* Lines 49-53: progress 30 and the final file name.
Progress30(uploads, f, finalFileName) ==
    SetEntry(uploads, f,
        [EntryOf(uploads, f) EXCEPT !.progress = "30",
                                   !.fileName = Str(finalFileName)])

\* uploadFile up to its first await: the entry is made and isUploading set;
\* without autoRename the call goes on to the upload itself.
StartUpload(u, f, autoRename) ==
    LET made == SetEntry(u.uploads, f,
                    [fileName |-> Str(UploadName(f)), progress |-> "0",
                     status |-> "uploading", error |-> NoStr])
    IN  [u EXCEPT
            !.uploads = IF autoRename THEN made
                        ELSE Progress30(made, f, UploadName(f)),
            !.isUploading = TRUE,
            !.running = SetPosition(@, f, [at |-> IF autoRename
                                                  THEN "listing"
                                                  ELSE "sending",
                                           finalFileName |-> UploadName(f)])]

RECURSIVE StartAll(_, _)
StartAll(u, fs) ==
    IF fs = {} THEN u
    ELSE LET f == CHOOSE x \in fs : \A y \in fs : x <= y
         IN  StartAll(StartUpload(u, f, TRUE), fs \ {f})

\* setIsUploading(false) at the end of uploadFile, in the try (line 62) and
\* in the catch (line 73).
AfterOwnUpload(isUploading) == FALSE

\* The catch of uploadFile.
UploadFailed(u, f, msg) ==
    [u EXCEPT
        !.uploads = SetEntry(@, f,
            [EntryOf(@, f) EXCEPT
                !.status = "error",
                !.error = Str(IF msg # <<>> THEN msg
                              ELSE <<"Upload failed">>)]),
        !.isUploading = AfterOwnUpload(@),
        !.running = SetPosition(@, f, [@[f] EXCEPT !.at = "failed"])]

ErrorMessages == {<<"User not authenticated">>, <<>>}

InitUpload ==
    /\ OrchestratorIdle
    /\ sheet = NoSheet
    /\ upload = NoUpload
    /\ unique = NoUnique

\* uploadFile(file, targetFolderId, autoRename)
uploadFile ==
    /\ \E f \in UploadFiles \ DOMAIN upload.running, autoRename \in BOOLEAN :
          upload' = StartUpload(upload, f, autoRename)
    /\ UNCHANGED <<single, calls, sheet, unique>>

\* uploadMultipleFiles(files): setIsUploading(true), then the synchronous
\* part of every uploadFile(file, targetFolderId), then the await.
uploadMultipleFiles ==
    /\ upload.batch = "none"
    /\ \E fs \in SUBSET (UploadFiles \ DOMAIN upload.running) :
          upload' = [StartAll([upload EXCEPT !.isUploading = TRUE], fs)
                        EXCEPT !.batch = "awaiting", !.files = fs]
    /\ UNCHANGED <<single, calls, sheet, unique>>

\* getFilesInFolder resolved: the file gets its final name, progress 30.
FilesListed ==
    /\ \E f \in DOMAIN upload.running :
          /\ upload.running[f].at = "listing"
          /\ \E existingNames \in FolderContents :
                LET finalFileName ==
                        getUniqueFilename(UploadName(f), existingNames)
                IN  upload' = [upload EXCEPT
                        !.uploads = Progress30(@, f, finalFileName),
                        !.running = SetPosition(@, f,
                            [at |-> "sending",
                             finalFileName |-> finalFileName])]
    /\ UNCHANGED <<single, calls, sheet, unique>>

\* getFilesInFolder rejected.
ListingRejects ==
    /\ \E f \in DOMAIN upload.running, msg \in ErrorMessages :
          /\ upload.running[f].at = "listing"
          /\ upload' = UploadFailed(upload, f, msg)
    /\ UNCHANGED <<single, calls, sheet, unique>>

\* uploadFileToManager resolved: lines 58-62.
UploadResolves ==
    /\ \E f \in DOMAIN upload.running :
          /\ upload.running[f].at = "sending"
          /\ upload' = [upload EXCEPT
                !.uploads = SetEntry(@, f,
                    [EntryOf(@, f) EXCEPT
                        !.progress = "100",
                        !.status = "completed",
                        !.fileName = Str(upload.running[f].finalFileName)]),
                !.isUploading = AfterOwnUpload(@),
                !.running = SetPosition(@, f, [@[f] EXCEPT !.at = "done"])]
    /\ UNCHANGED <<single, calls, sheet, unique>>

\* uploadFileToManager rejected.
UploadRejects ==
    /\ \E f \in DOMAIN upload.running, msg \in ErrorMessages :
          /\ upload.running[f].at = "sending"
          /\ upload' = UploadFailed(upload, f, msg)
    /\ UNCHANGED <<single, calls, sheet, unique>>

\* Promise.all settled, with every upload done or with the first that
\* failed: the finally of uploadMultipleFiles.
BatchSettles ==
    /\ upload.batch = "awaiting"
    /\ \/ \A f \in upload.files : upload.running[f].at = "done"
       \/ \E f \in upload.files : upload.running[f].at = "failed"
    /\ upload' = [upload EXCEPT !.isUploading = FALSE, !.batch = "settled"]
    /\ UNCHANGED <<single, calls, sheet, unique>>

\* clearUploads()
clearUploads ==
    /\ upload.uploads # <<>>
    /\ upload' = [upload EXCEPT !.uploads = <<>>]
    /\ UNCHANGED <<single, calls, sheet, unique>>

NextUpload ==
    \/ uploadFile
    \/ uploadMultipleFiles
    \/ FilesListed
    \/ ListingRejects
    \/ UploadResolves
    \/ UploadRejects
    \/ BatchSettles
    \/ clearUploads

SpecUpload == InitUpload /\ [][NextUpload]_vars

(***************************************************************************)
(* Helpers of the properties.                                              *)
(***************************************************************************)
IsPost == entry \in PostVariants

RECURSIVE FindFrom(_, _, _)
\* The least position >= start at which part occurs in str; 0 when none.
FindFrom(str, part, start) ==
    IF start + Len(part) - 1 > Len(str) THEN 0
    ELSE IF SubSeq(str, start, start + Len(part) - 1) = part THEN start
    ELSE FindFrom(str, part, start + 1)

RECURSIVE ContainsInOrder(_, _, _, _)
\* str holds parts[1], parts[2], ... from position start on, one after the
\* other, with the separator sep between two neighbours.
ContainsInOrder(str, parts, sep, start) ==
    IF parts = <<>> THEN TRUE
    ELSE LET at == FindFrom(str, Head(parts), start)
             after == at + Len(Head(parts))
         IN  /\ at # 0
             /\ IF Len(parts) = 1 THEN TRUE
                ELSE LET s == FindFrom(str, <<sep>>, after)
                     IN  /\ s # 0
                         /\ ContainsInOrder(str, Tail(parts), sep, s + 1)

\* The message adapter i failed with, as the adapter or the timer gave it.
ReportedError(o) == IF o.error.t = "str" THEN o.error.s ELSE <<>>

\* A schema whose headers are missing or empty, or whose sampleData holds
\* more than one entry.
ViolatesSchemaPolicy(s) ==
    \/ s.headers.t = "undef"
    \/ s.headers.a = <<>>
    \/ (s.sampleData.t = "arr" /\ Len(s.sampleData.a) > 1)

\* Two bodies with the same query and headers and, cell by cell, the same
\* typeof in the rows they send.
SameRowTypes(r1, r2) ==
    /\ Len(r1) = Len(r2)
    /\ \A i \in 1..Len(r1) : r1[i].ty = r2[i].ty

SameButCellValues(b1, b2) ==
    /\ b1.kind = b2.kind
    /\ b1.query = b2.query
    /\ b1.headers = b2.headers
    /\ b1.firstRow.t = b2.firstRow.t
    /\ SameRowTypes(b1.firstRow.a, b2.firstRow.a)
    /\ b1.rows.t = b2.rows.t
    /\ Len(b1.rows.a) = Len(b2.rows.a)
    /\ \A i \in 1..Len(b1.rows.a) : SameRowTypes(b1.rows.a[i], b2.rows.a[i])

(***************************************************************************)
(* The properties.                                                         *)
(***************************************************************************)
\* C1: first success wins.  In every call the adapters invoked are a prefix
\* of the provider list, in list order; and when the k-th attempt is the
\* first to return success, the adapters invoked are exactly the first k:
\* none after it is invoked.
C1_FirstSuccessWins ==
    /\ Len(invoked) <= Len(PROVIDERS)
    /\ invoked = SubSeq(PROVIDERS, 1, Len(invoked))
    /\ \A k \in 1..Len(outcomes) :
          outcomes[k].kind = "success" =>
              /\ invoked = SubSeq(PROVIDERS, 1, k)
              /\ pc = "done"

C1_Witness ==
    /\ entry = "fallback"
    /\ term = "Succeeded"
    /\ Len(outcomes) = 3
    /\ outcomes[1].kind = "fail"
    /\ outcomes[2].kind = "throw"
    /\ outcomes[3].kind = "success"
    /\ invoked = <<"Groq", "DeepSeek", "X.AI">>

\* C2: validation short-circuit.  makeAIRequestWithFallback called with a
\* schema whose headers are missing or empty, or whose sampleData holds more
\* than one entry, returns {success: false, type: 'error'} with an error
\* that starts with 'Security violation', and invokes no adapter.
C2_ValidationShortCircuit ==
    (entry = "fallback" /\ ViolatesSchemaPolicy(schema)) =>
        /\ invoked = <<>>
        /\ pc # "start" =>
              /\ pc = "done"
              /\ response.success = FALSE
              /\ response.type = "error"
              /\ response.error.t = "str"
              /\ response.error.s # <<>>
              /\ Head(response.error.s) = "Security violation"

C2_Witness ==
    /\ entry = "fallback"
    /\ pc = "done"
    /\ schema.headers = Arr(<<"A">>)
    /\ schema.sampleData = Arr(<<"number", "string">>)
    /\ term = "Rejected"

\* C3: a timeout advances.  In makeAIRequestWithFallback an attempt that
\* timed out is logged like a returned failure, under its provider's name
\* and with a timeout message; the next provider is invoked, or the call is
\* Exhausted after the last; and whatever the abandoned handler settles to
\* later, the response is that of the provider that succeeded, or none yet,
\* or the aggregated failure.
C3_TimeoutAdvances ==
    entry = "fallback" =>
        /\ \A k \in 1..Len(outcomes) :
              outcomes[k].kind \in {"timeout", "fail"} =>
                  /\ Len(attemptLog) >= k
                  /\ attemptLog[k].provider = PROVIDERS[k]
                  /\ outcomes[k].kind = "timeout" =>
                        \E i \in 1..Len(attemptLog[k].error) :
                            attemptLog[k].error[i] = " request timeout after "
                  /\ IF k < Len(PROVIDERS)
                     THEN Len(invoked) > k /\ invoked[k + 1] = PROVIDERS[k + 1]
                     ELSE term = "Exhausted"
        /\ pc # "done" => response = NoResponse
        /\ term = "Succeeded" =>
              /\ response.success
              /\ response.provider = PROVIDERS[Len(invoked)]
              /\ outcomes[Len(invoked)].kind = "success"
        /\ term = "Exhausted" =>
              /\ ~response.success
              /\ response.type = "error"
              /\ Len(attemptLog) = Len(PROVIDERS)

C3_Witness ==
    /\ entry = "fallback"
    /\ outcomes # <<>>
    /\ outcomes[1].kind = "timeout"
    /\ late[1] = "success"
    /\ term = "Succeeded"
    /\ response.provider = "DeepSeek"

\* C4: exhaustion aggregation.  When every adapter failed, the orchestrator
\* returns {success: false, type: 'error'} and the error holds, for every
\* adapter in provider order, '<name>: <error>', each entry after the one
\* before it with the separator ' | ' between them.
C4_ExhaustionAggregation ==
    term = "Exhausted" =>
        /\ Len(outcomes) = Len(PROVIDERS)
        /\ response.success = FALSE
        /\ response.type = "error"
        /\ response.error.t = "str"
        /\ ContainsInOrder(
              response.error.s,
              [i \in 1..Len(PROVIDERS) |->
                  <<PROVIDERS[i], ": ">> \o ReportedError(outcomes[i])],
              " | ", 1)

C4_Witness ==
    /\ entry = "fallback"
    /\ term = "Exhausted"
    /\ outcomes[1].kind = "fail" /\ outcomes[1].error # NoStr
    /\ outcomes[2].kind = "throw" /\ outcomes[2].error.s # <<>>
    /\ outcomes[3].kind = "timeout"
    /\ outcomes[4].kind = "fail"

\* C5: privacy non-interference.  A POST request and any other request with
\* the same query, the same headers and, cell by cell, the same types in its
\* rows hand the same (query, schema) to every adapter: the payload does not
\* depend on the values of the cells.
C5_PrivacyNonInterference ==
    IsPost =>
        \A i \in 1..Len(handed) :
            \A b2 \in Bodies(entry) :
                SameButCellValues(body, b2) =>
                    handed[i] = [query |-> b2.query,
                                 schema |-> BuildSchema(entry, b2)]

\* C6: the schema the extractor returns for a sample row has either no
\* sampleData, or a sampleData of typeof tags, one per cell of the row at
\* most, none of them the cell's verbatim value; extractSafeSchema returns
\* no sampleData.
C6_SampleDataOnlyTypeTags ==
    (IsPost /\ "extractSchema" \in called /\ thrown = NoStr) =>
        LET fr == FirstRowOf(entry, body)
            sd == schema.sampleData
        IN  /\ \/ sd = Undef
               \/ /\ sd.t = "arr"
                  /\ fr.t = "arr"
                  /\ Len(sd.a) <= Len(fr.a)
                  /\ \A i \in 1..Len(sd.a) :
                        /\ sd.a[i] \in TypeofTags
                        /\ sd.a[i] # fr.a[i].raw
            /\ extractSafeSchema(body.headers.a, fr).sampleData = Undef

C6_Witness ==
    /\ entry = "route"
    /\ "extractSchema" \in called
    /\ body.firstRow.t = "arr"
    /\ Len(body.firstRow.a) = 2
    /\ body.firstRow.a[1].raw = "42"
    /\ body.firstRow.a[2].raw = "hello"
    /\ schema.sampleData = Arr(<<"number", "string">>)

\* C7: on the path from POST no adapter is invoked unless the schema built
\* for the request has headers that are not empty and a sampleData of at
\* most one entry.
C7_ValidationBeforeProviders ==
    (IsPost /\ invoked # <<>>) => ~ViolatesSchemaPolicy(schema)

\* C8: a POST whose body has no query or no headers is answered with 400
\* and {success: false, type: 'error', error: 'Missing required parameters:
\* query and headers are required'}; extractSchema, makeAIRequest and the
\* adapters are not called.
C8_MissingParameters ==
    (IsPost /\ pc # "start" /\ body.kind = "object"
        /\ (body.query.t = "undef" \/ body.headers.t = "undef")) =>
        /\ pc = "done"
        /\ httpStatus = 400
        /\ httpBody.success = FALSE
        /\ httpBody.type = "error"
        /\ httpBody.error =
              Str(<<"Missing required parameters",
                    ": query and headers are required">>)
        /\ called = {}
        /\ invoked = <<>>

C8_Witness ==
    /\ entry = "route"
    /\ pc = "done"
    /\ body.kind = "object"
    /\ body.query.t = "undef"
    /\ body.headers = Arr(<<"A">>)
    /\ httpStatus = 400

\* C9: a POST whose query is the empty string, or whose headers are an
\* empty array, is answered with the 400 'Missing required parameters...'
\* result, and makeAIRequest is not called.  (Stated for the bodies whose
\* first row is an array or absent.)
C9_EmptyParameters ==
    (IsPost /\ pc # "start" /\ body.kind = "object"
        /\ body.firstRow.t # "other"
        /\ (body.query = Str(<<>>) \/ body.headers = Arr(<<>>))) =>
        /\ httpStatus = 400
        /\ httpBody.success = FALSE
        /\ httpBody.type = "error"
        /\ httpBody.error.t = "str"
        /\ httpBody.error.s # <<>>
        /\ Head(httpBody.error.s) = "Missing required parameters"
        /\ "makeAIRequest" \notin called

\* C10: no exception escapes POST.  Whatever is thrown while the body is
\* parsed, the schema extracted or the orchestrator run, POST answers 500
\* with {success: false, type: 'error', error: the exception's message or
\* 'Internal server error'}; and a POST that came to its end has answered.
C10_NoExceptionEscapes ==
    IsPost =>
        /\ thrown # NoStr =>
              /\ pc = "done"
              /\ httpStatus = 500
              /\ httpBody.success = FALSE
              /\ httpBody.type = "error"
              /\ httpBody.error.t = "str"
              /\ httpBody.error.s \in {thrown.s, <<"Internal server error">>}
              /\ httpBody.error.s # <<>>
        /\ pc = "done" => httpStatus \in {200, 400, 500}

C10_Witness ==
    /\ entry = "route"
    /\ "extractSchema" \in called
    /\ thrown = Str(<<"firstRow.map is not a function">>)
    /\ httpStatus = 500
    /\ httpBody.error = thrown

\* Every adapter of the list has run, each without an API key.
NoKeyAnywhere ==
    /\ Len(fetches) = Len(PROVIDERS)
    /\ \A i \in 1..Len(fetches) : ~fetches[i].key

\* C11: a valid POST request is answered with HTTP 200 and, verbatim, the
\* AIResponse of the orchestrator, also when that is a failure: when no
\* provider has an API key the body is {success: false, type: 'error'} and
\* its error holds '<name> API key not configured' for every provider of
\* the list.
C11_FailureVerbatim ==
    (IsPost /\ term \in {"Succeeded", "Exhausted"}) =>
        /\ httpStatus = 200
        /\ httpBody = response
        /\ term = "Succeeded" =>
              httpBody = AdapterResponse(outcomes[Len(outcomes)],
                                         PROVIDERS[Len(outcomes)])
        /\ term = "Exhausted" =>
              /\ httpBody.success = FALSE
              /\ httpBody.type = "error"
              /\ httpBody.error.t = "str"
        /\ NoKeyAnywhere =>
              /\ term = "Exhausted"
              /\ \A i \in 1..Len(PROVIDERS) :
                    FindFrom(httpBody.error.s,
                             <<PROVIDERS[i], ": ", PROVIDERS[i],
                               " API key not configured">>, 1) # 0

C11_Witness ==
    /\ entry = "route"
    /\ body.query = Str(<<"sum column A">>)
    /\ body.headers = Arr(<<"A", "B">>)
    /\ body.firstRow = Undef
    /\ NoKeyAnywhere
    /\ httpStatus = 200
    /\ httpBody.success = FALSE

Returned == term \in {"Succeeded", "Rejected", "Exhausted"}

C14_WellFormedResponse ==
    Returned =>
        /\ pc = "done"
        /\ response.success \in BOOLEAN
        /\ response.type \in {"formula", "transformation", "error"}
        /\ ~response.success =>
              /\ response.type = "error"
              /\ response.error.t = "str"
              /\ response.error.s # <<>>

\* C15: a call of an orchestrator that was made ends in Succeeded, Rejected
\* or Exhausted, also when handlers never settle.
C15_EventuallyTerminal ==
    (entry \in {"fallback", "simple"} \/ pc = "awaiting") ~> Returned

\* C16: in one call of an orchestrator the providers are tried one at a
\* time: every adapter invoked but the one being awaited has concluded (by
\* a success, a returned failure, an exception or a timeout), so that the
\* request to the next provider starts after the attempt before it has
\* concluded, and no step starts two.
C16_OneAtATime ==
    /\ pc = "awaiting" =>
          /\ Len(invoked) = Len(outcomes) + 1
          /\ idx = Len(invoked)
    /\ pc # "awaiting" => Len(invoked) = Len(outcomes)
    /\ \A k \in 1..Len(outcomes) :
          outcomes[k].kind \in {"success", "fail", "throw", "timeout"}

C16_Witness ==
    /\ entry = "fallback"
    /\ pc = "awaiting"
    /\ invoked = <<"Groq", "DeepSeek", "X.AI">>
    /\ outcomes[1].kind = "timeout"
    /\ outcomes[2].kind = "fail"
    /\ late[1] = "pending"

\* C17: when a provider timed out and a later provider succeeded,
\* makeAIRequestWithFallback returns the result of the provider that
\* succeeded, with that provider's name, and the attempt log holds the
\* attempts before it, whenever and however the abandoned handlers settle:
\* before, during or after the later attempt, with a success or not.
C17_LateCompletionDiscarded ==
    (entry = "fallback" /\ term = "Succeeded"
        /\ \E i \in 1..Len(outcomes) : outcomes[i].kind = "timeout") =>
        LET j == Len(outcomes)
        IN  /\ outcomes[j].kind = "success"
            /\ response =
                  [AdapterResponse(outcomes[j], PROVIDERS[j])
                      EXCEPT !.provider = PROVIDERS[j]]
            /\ Len(attemptLog) = j - 1
            /\ \A k \in 1..(j - 1) :
                  attemptLog[k] = AttemptRecord(PROVIDERS[k], outcomes[k])

C17_Witness ==
    /\ entry = "fallback"
    /\ term = "Succeeded"
    /\ Len(outcomes) = 3
    /\ outcomes[1].kind = "timeout"
    /\ outcomes[2].kind = "timeout"
    /\ late[1] = "success"
    /\ late[2] = "throw"
    /\ response.provider = "X.AI"
    /\ Len(attemptLog) = 2

\* The error of the response names a key that is not configured.
SaysNotConfigured(err) ==
    /\ err.t = "str"
    /\ \E i \in 1..Len(err.s) : err.s[i] = " API key not configured"

\* C18: an adapter whose API key is not set calls no fetch and returns
\* {success: false, type: 'error'} with an error that holds 'not
\* configured'; the orchestrator goes on to the next provider (or is
\* Exhausted after the last), so that a request for which only a later
\* provider has a key, and gets a well-formed answer, succeeds through
\* that provider.
C18_KeylessAdapterSkipped ==
    /\ \A k \in 1..Len(fetches) :
          ~fetches[k].key =>
              /\ ~fetches[k].sent
              /\ IF entry = "adapter"
                 THEN /\ term = "AdapterResolved"
                      /\ response.success = FALSE
                      /\ response.type = "error"
                      /\ SaysNotConfigured(response.error)
                 ELSE /\ outcomes[k].kind = "fail"
                      /\ outcomes[k].type = "error"
                      /\ SaysNotConfigured(outcomes[k].error)
                      /\ IF k < Len(PROVIDERS)
                         THEN Len(invoked) > k
                         ELSE term = "Exhausted"
    /\ \A k \in 1..Len(fetches) :
          (IsPost /\ fetches[k].key
              /\ fetches[k].reply.content = Str(FormulaContent)) =>
              /\ term = "Succeeded"
              /\ k = Len(fetches)
              /\ response.success
              /\ response.provider = PROVIDERS[k]

C18_Witness ==
    /\ IsPost
    /\ Len(fetches) = 3
    /\ ~fetches[1].key /\ ~fetches[1].sent
    /\ ~fetches[2].key /\ ~fetches[2].sent
    /\ fetches[3].key /\ fetches[3].sent
    /\ term = "Succeeded"
    /\ httpBody.success
    /\ httpBody.provider = "X.AI"

\* A failure of the ordinary kind: a status that is not OK, a body that is
\* not JSON, a reply with no content, or a content that is not JSON.
NotJSON(reply) ==
    /\ reply.http = "ok"
    /\ TruthyStr(reply.content)
    /\ JSONParse(reply.content.s).k = "invalid"

OrdinaryFailure(reply) ==
    \/ reply.http \in {"notok", "notjson"}
    \/ reply.http = "ok" /\ ~TruthyStr(reply.content)
    \/ NotJSON(reply)

IsFailureResponse(r) ==
    /\ r.success = FALSE
    /\ r.type = "error"
    /\ r.error.t = "str"
    /\ r.error.s # <<>>

RECURSIVE RunAlone(_, _)
\* The state of a call of orchestrator orch that runs alone and whose
\* attempts conclude with outs, one after the other.
RunAlone(orch, outs) ==
    IF outs = <<>> THEN Started(NewCall(orch))
    ELSE AfterAttempt(RunAlone(orch, SubSeq(outs, 1, Len(outs) - 1)),
                      outs[Len(outs)])

\* The message names request d.
Names(msg, d) == \E i \in 1..Len(msg) : msg[i] = ToString(d)

\* C20: two calls that run concurrently do not interact.  In every
\* interleaving each call's attempt log, adapters invoked and response are
\* those of the same call running alone with the same outcomes, and no
\* error of the other request is in its log or in the error it returns.
C20_CallsIndependent ==
    \A c \in DOMAIN calls :
        calls[c].pc # "start" =>
            /\ calls[c] = RunAlone(calls[c].orch, calls[c].outcomes)
            /\ \A d \in DOMAIN calls \ {c} :
                  /\ \A i \in 1..Len(calls[c].attemptLog) :
                        ~Names(calls[c].attemptLog[i].error, d)
                  /\ \A i \in 1..Len(calls[c].errors) :
                        ~Names(calls[c].errors[i], d)
                  /\ calls[c].response.error.t = "str" =>
                        ~Names(calls[c].response.error.s, d)

C20_Witness ==
    /\ DOMAIN calls = CallIds
    /\ calls[1].orch = "fallback"
    /\ calls[1].term = "Exhausted"
    /\ Names(calls[1].response.error.s, 1)
    /\ calls[2].orch = "fallback"
    /\ calls[2].pc = "awaiting"
    /\ Len(calls[2].attemptLog) = 2
    /\ Names(calls[2].attemptLog[1].error, 2)

\* C21: the classification of an error does not change the control flow.
\* In makeAIRequestWithFallback every attempt that ended with an exception
\* or a timeout is logged under its provider's name and is followed by the
\* next provider, or by Exhausted after the last, whether shouldFallback is
\* true of the error or not; and the call is Exhausted only after the last
\* provider was tried.
C21_ClassificationNoControlFlow ==
    entry = "fallback" =>
        /\ \A k \in 1..Len(outcomes) :
              outcomes[k].kind \in {"throw", "timeout", "fail"} =>
                  /\ Len(attemptLog) >= k
                  /\ attemptLog[k] = AttemptRecord(PROVIDERS[k], outcomes[k])
                  /\ IF k < Len(PROVIDERS)
                     THEN /\ Len(invoked) >= k + 1
                          /\ invoked[k + 1] = PROVIDERS[k + 1]
                     ELSE term = "Exhausted"
        /\ term = "Exhausted" => Len(outcomes) = Len(PROVIDERS)

C21_Witness ==
    /\ entry = "fallback"
    /\ Len(outcomes) >= 2
    /\ outcomes[1].kind = "throw" /\ ~shouldFallback(outcomes[1])
    /\ outcomes[2].kind = "throw" /\ shouldFallback(outcomes[2])
    /\ Len(invoked) = 3
    /\ Len(attemptLog) = 2

\* C22: no retry in place.  In one call of an orchestrator the handler of
\* each provider is invoked once at most, whatever the failures were: an
\* exception with status 429, a timeout, a quota message or any other
\* exception.
C22_NoRetryInPlace ==
    /\ Len(invoked) <= Len(PROVIDERS)
    /\ \A i \in 1..Len(invoked) : \A j \in 1..Len(invoked) :
          invoked[i] = invoked[j] => i = j

C22_Witness ==
    /\ entry = "fallback"
    /\ term = "Exhausted"
    /\ outcomes[1] = Throw(<<>>, 429)
    /\ outcomes[2].kind = "timeout"
    /\ outcomes[3] = Fail(Str(<<"quota exceeded">>))
    /\ outcomes[4] = Throw(<<"boom">>, 0)
    /\ invoked = PROVIDERS

\* The attempts that have concluded without a success.
FailedAttempts ==
    Len(outcomes) - (IF term = "Succeeded" THEN 1 ELSE 0)

\* C23: the attempt log (attemptLog of makeAIRequestWithFallback, errors of
\* makeAIRequest) holds one record for each provider that was tried and
\* failed, in provider order, with the provider's name and the error it
\* reported (a placeholder when it reported none); while the i-th provider
\* is tried the log has i - 1 records, and in Exhausted it has one for
\* every provider.
C23_AttemptLogInvariant ==
    (entry \in {"fallback", "simple"} \cup PostVariants) =>
        LET fallback == entry = "fallback"
            n == IF fallback THEN Len(attemptLog) ELSE Len(errors)
        IN  /\ n = FailedAttempts
            /\ IF fallback THEN errors = <<>> ELSE attemptLog = <<>>
            /\ pc = "awaiting" => n = idx - 1
            /\ term = "Exhausted" => n = Len(PROVIDERS)
            /\ \A k \in 1..n :
                  LET reported == ReportedError(outcomes[k])
                  IN  IF fallback
                      THEN /\ attemptLog[k].provider = PROVIDERS[k]
                           /\ IF reported # <<>>
                              THEN attemptLog[k].error = reported
                              ELSE attemptLog[k].error \in
                                     {<<"Unknown error">>,
                                      <<"Unknown exception">>}
                      ELSE /\ SubSeq(errors[k], 1, 2) = <<PROVIDERS[k], ": ">>
                           /\ outcomes[k].error.t = "str" =>
                                 errors[k] =
                                     <<PROVIDERS[k], ": ">> \o reported

C23_Witness ==
    /\ entry = "fallback"
    /\ pc = "awaiting"
    /\ idx = 3
    /\ Len(attemptLog) = 2
    /\ attemptLog[1] = [provider |-> "Groq", error |-> <<"Unknown error">>]
    /\ attemptLog[2].provider = "DeepSeek"
    /\ attemptLog[2].error = <<"boom">>

\* The code between the first two fences of a text, and <<>> when the text
\* has no fenced block.
FencedCode(content) ==
    LET m == CodeMatch(content)
    IN  IF m.found THEN Trim(SubSeq(content, m.from + 1, m.to - 1)) ELSE <<>>

\* C24: when the content of the provider's reply is not well-formed JSON,
\* every adapter still returns a success: with the code of the fenced block
\* when the text has one, and else with explanation = the text, code = ''
\* and type = 'formula'.
C24_ReplyParsingFallback ==
    (entry = "adapter" /\ pc = "done" /\ fetches[1].key
        /\ NotJSON(fetches[1].reply)) =>
        LET content == fetches[1].reply.content.s
        IN  /\ term = "AdapterResolved"
            /\ response.success
            /\ IF CodeMatch(content).found
               THEN response.code = FencedCode(content)
               ELSE /\ response.explanation = content
                    /\ response.code = <<>>
                    /\ response.type = "formula"

\* The sample-row cell of column h, or the cell "undefined" when the row is
\* shorter than the headers.
CellOf(h) ==
    LET i == LastIndexOf(body.headers.a, h)
    IN  IF i <= Len(body.firstRow.a) THEN body.firstRow.a[i]
        ELSE [ty |-> "undefined", raw |-> "undefined"]

\* The type the priority order gives a cell.
PriorityType(c) ==
    IF c.raw \in {"null", "undefined"} /\ c.ty # "string" THEN "null"
    ELSE IF c.ty = "number" THEN "number"
    ELSE IF c.ty = "boolean" THEN "boolean"
    ELSE IF c.ty = "object" /\ c.raw \in DateObjects THEN "date"
    ELSE IF c.ty = "string" /\ c.raw \in DateStrings THEN "date"
    ELSE IF c.ty = "string" /\ c.raw \in NumericStrings \ BlankStrings
         THEN "number"
    ELSE "string"

Extracted == entry \in Extractors /\ pc = "done"

\* C25: the type of every column follows the priority order null or
\* undefined, number, boolean, Date object, date string, non-blank numeric
\* string, string; without a sample row every column is 'string'; the row
\* [42, 'hello'] gives number and string, the row [null] gives 'null'.
C25_TypeInference ==
    Extracted =>
        \A h \in Range(body.headers.a) :
            schema.columnTypes[h] =
                IF Truthy(body.firstRow) THEN PriorityType(CellOf(h))
                ELSE "string"

\* C26: for non-empty headers and any sample row the extractor returns a
\* schema whose columnTypes has exactly the headers as keys and only the
\* values number, string, boolean, date and null.
C26_ColumnTypesWellFormed ==
    (Extracted /\ body.headers.a # <<>>) =>
        /\ term = "Extracted"
        /\ DOMAIN schema.columnTypes = Range(body.headers.a)
        /\ \A h \in DOMAIN schema.columnTypes :
              schema.columnTypes[h] \in
                  {"number", "string", "boolean", "date", "null"}

\* C27: for non-empty headers and a first row of any number of columns the
\* schema the extractor returns passes validateSchemaOnly.
C27_ExtractorPassesSafetyCheck ==
    (Extracted /\ body.headers.a # <<>>) => validateSchemaOnly(schema)

\* C28: undo and redo are inverses on the history.  With a past and a
\* present, undo then redo gives the history back; with a future, redo then
\* undo gives it back; undo without a past and redo without a future change
\* nothing.
C28_UndoRedoInverse ==
    LET h == sheet.undoRedo
    IN  /\ (h.past # <<>> /\ h.present # Null) => RedoState(UndoState(h)) = h
        /\ h.future # <<>> => UndoState(RedoState(h)) = h
        /\ h.past = <<>> => UndoState(h) = h
        /\ h.future = <<>> => RedoState(h) = h

\* An undo was made after two edits: the history has a past and a future.
C28_Witness ==
    /\ sheet.undoRedo.past # <<>>
    /\ sheet.undoRedo.future # <<>>
    /\ sheet.undoRedo.present # Null
    /\ sheet.data = sheet.undoRedo.present

\* Some existing name equals the file name but for the case of its letters.
NameTaken ==
    \E i \in 1..Len(unique.existingNames) :
        ToLowerCase(unique.existingNames[i]) = ToLowerCase(unique.filename)

\* The candidate of counter k equals an existing name but for the case.
CandidateTaken(k) ==
    \E i \in 1..Len(unique.existingNames) :
        ToLowerCase(unique.existingNames[i]) =
            ToLowerCase(NewFilename(unique.filename, k))

\* C30: getUniqueFilename returns the file name unchanged when no existing
\* name equals it case-insensitively, and else '<name> (k)<ext>' for the
\* smallest k >= 1 that no existing name equals case-insensitively; k is at
\* most one more than the number of existing names, so the loop ends.
C30_SmallestFreeCounter ==
    unique.pc = "done" =>
        IF ~NameTaken THEN unique.result = unique.filename
        ELSE \E k \in 1..(Len(unique.existingNames) + 1) :
                /\ unique.result = NewFilename(unique.filename, k)
                /\ ~CandidateTaken(k)
                /\ \A j \in 1..(k - 1) : CandidateTaken(j)

\* A.TXT in a folder that holds a.txt and a (1).txt becomes A (2).TXT.
C30_Witness ==
    /\ unique.pc = "done"
    /\ unique.filename = <<"A", ".", "T", "X", "T">>
    /\ NameTaken
    /\ CandidateTaken(1)
    /\ unique.result = <<"A", " ", "(", "2", ")", ".", "T", "X", "T">>

\* C29: isUploading is true whenever some entry of uploads has the status
\* 'uploading'.
C29_UploadingFlag ==
    (\E f \in DOMAIN upload.uploads :
        upload.uploads[f].status = "uploading") => upload.isUploading

====
